---- MODULE Spec2Model ----
(***************************************************************************)
(* Hedge game server: the in-memory player/game directory                  *)
(* (src/game_server.py) and the trading ledger built on it                 *)
(* (src/trading_api.py): ticker registry, price snapshots, trade log,      *)
(* participant cash ledger, trade listing and portfolio valuation.         *)
(*                                                                         *)
(* Money and quantities are Decimal in the source; they are modelled as    *)
(* integers (whole currency units, whole shares).  A player id "user_N"    *)
(* is kept as that string, a participant key f"{game_id}:{player_id}" as   *)
(* the pair <<game_id, player_id>> (player ids hold no colon, so the       *)
(* string is as injective as the pair).  round_id None is 0 (a given       *)
(* round_id is >= 1).  Timestamps are integers.                            *)
(***************************************************************************)
EXTENDS Integers, Sequences, FiniteSets, TLC

VARIABLES
    profiles,           \* game_server.profiles : player id -> profile
    games,              \* game_server.games    : game id -> game
    game_id,            \* game_server.game_id  : next game id
    matchmaking_queue,  \* game_server.matchmaking_queue
    tickers,            \* trading_api.tickers  : ticker id -> ticker
    sym_index,          \* trading_api.sym_index: symbol -> ticker id
    ticker_id_seq,
    price_snapshots,    \* list of snapshot rows
    ps_id_seq,
    trades,             \* list of trade rows
    trade_id_seq,
    participants_cash,  \* participant key -> cash
    coroutines,         \* the place_trade coroutines in flight: slot -> frame (pc and locals)
    running             \* the slot of the coroutine the event loop is running, or None

dirVars == <<profiles, games, game_id, matchmaking_queue>>
tickerVars == <<tickers, sym_index, ticker_id_seq>>
priceVars == <<price_snapshots, ps_id_seq>>
tradeVars == <<trades, trade_id_seq>>
loopVars == <<coroutines, running>>
vars == <<profiles, games, game_id, matchmaking_queue, tickers, sym_index,
          ticker_id_seq, price_snapshots, ps_id_seq, trades, trade_id_seq,
          participants_cash, coroutines, running>>

---------------------------------------------------------------------------
(* Bounds of the model and the request inputs it enumerates.               *)

MaxTrades == 2
MaxSnaps == 2
MaxProfiles == 4
MaxPriceSnaps == 3
MaxListTrades == 3
MaxGameId == 5
MaxPortSnaps == 3
MaxPortTrades == 2
MaxLoopTrades == 2
MaxExecSnaps == 3
MaxExecTrades == 1
MaxIdentitySnaps == 1
MaxIdentityTrades == 2
MaxMatchGameId == 6
MaxParticipants == 3

None == 0

PENDING == "PENDING"
IN_PROGRESS == "IN_PROGRESS"
COMPLETED == "COMPLETED"

BUY == "BUY"
SELL == "SELL"

\* the requests of Spec
Symbols == {"AAPL", "aapl", "MSFT"}
TradeSymbols == {"aapl", "MSFT"}
Prices == {50000}
Quantities == {1, 2}
Rounds == {None}
Times == {1}
PlayerIds == {"user_4"}
GameIds == {1, 2, 3}
SnapGameIds == {1, 2}
Usernames == {"newbie"}
Limits == {1}
Offsets == {0}

UserId(n) ==
    <<"user_1", "user_2", "user_3", "user_4", "user_5", "user_6", "user_7", "user_8">>[n]

\* variant: the symbol is stored and looked up as given
upper_as_given(s) == s

upper(s) ==
    CASE s = "aapl" -> "AAPL"
      [] s = "msft" -> "MSFT"
      [] OTHER -> s

\* The slots of the place_trade requests that can be in flight together, and
\* the frame of a slot that holds no request.
Slots == {1, 2}

NoFrame ==
    [pc |-> "done", gid |-> 0, player_id |-> "", ticker_symbol |-> "", side |-> "",
     quantity |-> 0, round_id |-> 0, pkey |-> <<0, "">>, tid |-> 0, price |-> 0,
     notional |-> 0, cash |-> 0, trade_row_id |-> 0]

---------------------------------------------------------------------------
(* State after startup: load_test_data has filled the directory, the       *)
(* trading stores are empty.                                               *)

load_test_data_profiles ==
    ( "user_1" :> [username |-> "speedtrader", level |-> "EXPERT"] ) @@
    ( "user_2" :> [username |-> "hedgefund", level |-> "ADVANCED"] ) @@
    ( "user_3" :> [username |-> "rookie123", level |-> "BEGINNER"] ) @@
    ( "user_4" :> [username |-> "protrader", level |-> "INTERMEDIATE"] )

load_test_data_games ==
    ( 1 :> [starting_cash |-> 100000, status |-> IN_PROGRESS, participants_count |-> 2] ) @@
    ( 2 :> [starting_cash |-> 50000, status |-> PENDING, participants_count |-> 1] ) @@
    ( 3 :> [starting_cash |-> 200000, status |-> COMPLETED, participants_count |-> 4] )

Init ==
    /\ profiles = load_test_data_profiles
    /\ games = load_test_data_games
    /\ game_id = 4
    /\ matchmaking_queue = << >>
    /\ tickers = [t \in {} |-> 0]
    /\ sym_index = [s \in {} |-> 0]
    /\ ticker_id_seq = 1
    /\ price_snapshots = << >>
    /\ ps_id_seq = 1
    /\ trades = << >>
    /\ trade_id_seq = 1
    /\ participants_cash = [k \in {} |-> 0]
    /\ coroutines = [c \in Slots |-> NoFrame]
    /\ running = None

---------------------------------------------------------------------------
(* Helpers of trading_api.py                                               *)

_participant_key(gid, player_id) == <<gid, player_id>>

\* "ok", or the detail of the HTTPException raised
_ensure_user_and_game(player_id, gid) ==
    IF player_id \notin DOMAIN profiles THEN "Player not found"
    ELSE IF gid \notin DOMAIN games THEN "Game not found"
    ELSE "ok"

\* variant: the status of the game is not looked at
_ensure_trading_allowed_any_status(gid) == "ok"

_ensure_trading_allowed(gid) ==
    IF games[gid].status \notin {PENDING, IN_PROGRESS}
    THEN "Trading not allowed in this game state"
    ELSE "ok"

\* variant: the cash is set to the game's starting cash at every access
_get_or_create_participant_resynced(gid, player_id) ==
    (_participant_key(gid, player_id) :> games[gid].starting_cash) @@ participants_cash

\* the ledger after the call (the key it returns is _participant_key)
_get_or_create_participant(gid, player_id) ==
    LET key == _participant_key(gid, player_id)
    IN  IF key \notin DOMAIN participants_cash
        THEN (key :> games[gid].starting_cash) @@ participants_cash
        ELSE participants_cash

\* the ticker id, or None when the HTTPException 404 is raised
_require_ticker(symbol) ==
    IF upper(symbol) \in DOMAIN sym_index THEN sym_index[upper(symbol)] ELSE None

NoRow == [id |-> 0, game_id |-> 0, round_id |-> 0, ticker_id |-> 0, price |-> 0]

\* variant: the game of the snapshot is not compared
RECURSIVE ScanReversed_any_game(_, _, _, _, _)
ScanReversed_any_game(i, gid, ticker_id, round_id, anyRound) ==
    IF i = 0 THEN NoRow
    ELSE LET row == price_snapshots[i]
         IN  IF /\ row.ticker_id = ticker_id
                /\ (anyRound \/ row.round_id = round_id)
             THEN row
             ELSE ScanReversed_any_game(i - 1, gid, ticker_id, round_id, anyRound)

\* for row in reversed(price_snapshots): first row matching, scanning from index i down
RECURSIVE ScanReversed(_, _, _, _, _)
ScanReversed(i, gid, ticker_id, round_id, anyRound) ==
    IF i = 0 THEN NoRow
    ELSE LET row == price_snapshots[i]
         IN  IF /\ row.game_id = gid
                /\ row.ticker_id = ticker_id
                /\ (anyRound \/ row.round_id = round_id)
             THEN row
             ELSE ScanReversed(i - 1, gid, ticker_id, round_id, anyRound)

\* variant: the round asked for is not looked at
_latest_price_any_round(gid, ticker_id, round_id) ==
    ScanReversed(Len(price_snapshots), gid, ticker_id, round_id, TRUE)

\* the snapshot row, or NoRow when the HTTPException 400 is raised
_latest_price(gid, ticker_id, round_id) ==
    LET best1 == IF round_id # None
                 THEN ScanReversed(Len(price_snapshots), gid, ticker_id, round_id, FALSE)
                 ELSE NoRow
    IN  IF best1 # NoRow THEN best1
        ELSE ScanReversed(Len(price_snapshots), gid, ticker_id, round_id, TRUE)

\* variant: a missing snapshot is not reported
best_is_None_never(best) == FALSE

\* `if best is None: raise HTTPException(400, ...)` at the end of _latest_price
best_is_None(best) == best = NoRow

RECURSIVE PositionLoop(_, _, _)
PositionLoop(i, participant_key, ticker_id) ==
    IF i = 0 THEN 0
    ELSE LET t == trades[i]
             rest == PositionLoop(i - 1, participant_key, ticker_id)
         IN  IF t.participant_key = participant_key /\ t.ticker_id = ticker_id
             THEN IF t.side = BUY THEN rest + t.quantity ELSE rest - t.quantity
             ELSE rest

_position_quantity(participant_key, ticker_id) ==
    PositionLoop(Len(trades), participant_key, ticker_id)

---------------------------------------------------------------------------
(* Endpoints of trading_api.py.  Each action is the whole handler; the     *)
(* operator <handler>_detail is "ok" or the detail of the HTTPException    *)
(* the handler raises for that request in the current state.               *)

create_ticker_detail(symbol) ==
    IF upper(symbol) \in DOMAIN sym_index THEN "Ticker exists" ELSE "ok"

create_ticker(symbol) ==
    LET sym == upper(symbol)
        tid == ticker_id_seq
    IN  /\ UNCHANGED <<dirVars, priceVars, tradeVars, participants_cash>>
        /\ UNCHANGED loopVars
        /\ IF create_ticker_detail(symbol) # "ok"
           THEN UNCHANGED tickerVars
           ELSE /\ tickers' = (tid :> [id |-> tid, symbol |-> sym]) @@ tickers
                /\ sym_index' = (sym :> tid) @@ sym_index
                /\ ticker_id_seq' = ticker_id_seq + 1

add_price_snapshot_detail(gid, ticker_symbol) ==
    IF gid \notin DOMAIN games THEN "Game not found"
    ELSE IF _require_ticker(ticker_symbol) = None THEN "Ticker not found"
    ELSE "ok"

\* variant: the newest snapshot is replaced once there is one (one current
\* price instead of a history)
add_price_snapshot_in_place(gid, ticker_symbol, price, round_id) ==
    /\ UNCHANGED <<dirVars, tickerVars, tradeVars, participants_cash>>
    /\ UNCHANGED loopVars
    /\ IF add_price_snapshot_detail(gid, ticker_symbol) # "ok"
       THEN UNCHANGED priceVars
       ELSE /\ price_snapshots' =
                   Append(IF price_snapshots = << >> THEN << >>
                          ELSE SubSeq(price_snapshots, 1, Len(price_snapshots) - 1),
                          [id |-> ps_id_seq, game_id |-> gid, round_id |-> round_id,
                           ticker_id |-> _require_ticker(ticker_symbol), price |-> price])
            /\ ps_id_seq' = ps_id_seq + 1

add_price_snapshot(gid, ticker_symbol, price, round_id) ==
    /\ UNCHANGED <<dirVars, tickerVars, tradeVars, participants_cash>>
    /\ UNCHANGED loopVars
    /\ IF add_price_snapshot_detail(gid, ticker_symbol) # "ok"
       THEN UNCHANGED priceVars
       ELSE /\ price_snapshots' = Append(price_snapshots,
                   [id |-> ps_id_seq, game_id |-> gid, round_id |-> round_id,
                    ticker_id |-> _require_ticker(ticker_symbol), price |-> price])
            /\ ps_id_seq' = ps_id_seq + 1

get_price_detail(symbol, gid, round_id) ==
    IF _require_ticker(symbol) = None THEN "Ticker not found"
    ELSE IF best_is_None(_latest_price(gid, _require_ticker(symbol), round_id))
    THEN "No price snapshot available for this ticker"
    ELSE "ok"

\* the PriceResponse of a get_price that succeeds (taken_at left out)
get_price_response(symbol, gid, round_id) ==
    LET tid == _require_ticker(symbol)
    IN  [ticker_id |-> tid, symbol |-> tickers[tid].symbol,
         price |-> _latest_price(gid, tid, round_id).price]

get_price(symbol, gid, round_id) ==
    UNCHANGED vars

\* variant: the quantity sold is not subtracted before the comparison
insufficient_position_before_sale(side, current_qty, qty) ==
    side = SELL /\ current_qty < 0

\* if body.side == Side.SELL and current_qty - qty < 0
insufficient_position(side, current_qty, qty) ==
    side = SELL /\ current_qty - qty < 0

\* variant: the notional is not compared with the cash
insufficient_cash_when_broke(side, cash, notional) ==
    side = BUY /\ cash < 0

\* if body.side == Side.BUY and cash < notional
insufficient_cash(side, cash, notional) ==
    side = BUY /\ cash < notional

\* variant: a SELL is debited as a BUY is
cash_after_debit_only(side, cash, notional) == cash - notional

\* the participant's cash once the trade is recorded
cash_after(side, cash, notional) ==
    IF side = BUY THEN cash - notional ELSE cash + notional

place_trade_detail(gid, player_id, ticker_symbol, side, quantity, round_id) ==
    IF _ensure_user_and_game(player_id, gid) # "ok"
    THEN _ensure_user_and_game(player_id, gid)
    ELSE IF _ensure_trading_allowed(gid) # "ok"
    THEN _ensure_trading_allowed(gid)
    ELSE IF _require_ticker(ticker_symbol) = None
    THEN "Ticker not found"
    ELSE LET pkey == _participant_key(gid, player_id)
             tid == _require_ticker(ticker_symbol)
             snap == _latest_price(gid, tid, round_id)
             current_qty == _position_quantity(pkey, tid)
             notional == snap.price * quantity
             cash == _get_or_create_participant(gid, player_id)[pkey]
         IN  IF best_is_None(snap)
             THEN "No price snapshot available for this ticker"
             ELSE IF insufficient_position(side, current_qty, quantity)
             THEN "Insufficient position (shorting disabled)"
             ELSE IF insufficient_cash(side, cash, notional)
             THEN "Insufficient cash"
             ELSE "ok"

\* the details raised before _get_or_create_participant is called
BeforeParticipant ==
    {"Player not found", "Game not found", "Trading not allowed in this game state"}

place_trade(gid, player_id, ticker_symbol, side, quantity, round_id, now) ==
    LET detail == place_trade_detail(gid, player_id, ticker_symbol, side, quantity, round_id)
        pkey == _participant_key(gid, player_id)
    IN  /\ UNCHANGED <<dirVars, tickerVars, priceVars>>
        /\ UNCHANGED loopVars
        /\ IF detail \in BeforeParticipant
           THEN UNCHANGED <<tradeVars, participants_cash>>
           ELSE IF detail # "ok"
           THEN /\ participants_cash' = _get_or_create_participant(gid, player_id)
                /\ UNCHANGED tradeVars
           ELSE LET tid == _require_ticker(ticker_symbol)
                    price == _latest_price(gid, tid, round_id).price
                    notional == price * quantity
                    created == _get_or_create_participant(gid, player_id)
                    cash == created[pkey]
                IN  /\ trades' = Append(trades,
                           [id |-> trade_id_seq, game_id |-> gid,
                            participant_key |-> pkey, round_id |-> round_id,
                            ticker_id |-> tid, side |-> side, quantity |-> quantity,
                            price |-> price, executed_at |-> now])
                    /\ trade_id_seq' = trade_id_seq + 1
                    /\ participants_cash' =
                           [created EXCEPT ![pkey] = cash_after(side, cash, notional)]

\* variant: rows of equal executed_at come out in reverse insertion order
\* (what reversed(sorted(rows)) would give)
sort_executed_at_reverse_ties_reversed(rows) ==
    LET Sorted(rs) ==
            LET n == Len(rs)
                Before(i) ==
                    Cardinality({j \in 1..n :
                        \/ rs[j].executed_at > rs[i].executed_at
                        \/ rs[j].executed_at = rs[i].executed_at /\ j > i})
            IN  [k \in 1..n |-> rs[CHOOSE i \in 1..n : Before(i) = k - 1]]
    IN  CHOOSE sorted \in {Sorted(rs) : rs \in {rows}} : TRUE

\* rows.sort(key=lambda r: r["executed_at"], reverse=True): list.sort is
\* stable, and with reverse=True rows of equal key keep their original order.
\* Row i therefore comes behind the rows of a larger key and behind the rows
\* of an equal key that precede it in `rows`.  (rs ranges over the one value
\* of `rows`, so that the list is computed once.)
sort_executed_at_reverse(rows) ==
    LET Sorted(rs) ==
            LET n == Len(rs)
                Before(i) ==
                    Cardinality({j \in 1..n :
                        \/ rs[j].executed_at > rs[i].executed_at
                        \/ rs[j].executed_at = rs[i].executed_at /\ j < i})
            IN  [k \in 1..n |-> rs[CHOOSE i \in 1..n : Before(i) = k - 1]]
    IN  CHOOSE sorted \in {Sorted(rs) : rs \in {rows}} : TRUE

\* limit: int = Query(50, ge=1, le=200)
MaxLimit == 200

\* rows[offset: offset + limit]
Slice(rows, offset, limit) ==
    SubSeq(rows, offset + 1, IF offset + limit < Len(rows) THEN offset + limit ELSE Len(rows))

TradeListItem(r) ==
    [id |-> r.id, round_id |-> r.round_id,
     symbol |-> IF r.ticker_id \in DOMAIN tickers THEN tickers[r.ticker_id].symbol ELSE "?",
     side |-> r.side, quantity |-> r.quantity, price |-> r.price,
     executed_at |-> r.executed_at]

list_trades_rows(gid, player_id, round_id) ==
    LET pkey == _participant_key(gid, player_id)
        Keep(t) == /\ t.game_id = gid
                   /\ t.participant_key = pkey
                   /\ (round_id = None \/ t.round_id = round_id)
    IN  SelectSeq(trades, Keep)

list_trades_detail(gid, player_id) == _ensure_user_and_game(player_id, gid)

\* the response body of a list_trades that succeeds
list_trades_response(gid, player_id, round_id, limit, offset) ==
    LET rows == sort_executed_at_reverse(list_trades_rows(gid, player_id, round_id))
        Items(window) == [i \in 1..Len(window) |-> TradeListItem(window[i])]
    IN  CHOOSE items \in {Items(window) : window \in {Slice(rows, offset, limit)}} : TRUE

list_trades(gid, player_id, round_id, limit, offset) ==
    /\ UNCHANGED <<dirVars, tickerVars, priceVars, tradeVars>>
    /\ UNCHANGED loopVars
    /\ IF list_trades_detail(gid, player_id) # "ok"
       THEN UNCHANGED participants_cash
       ELSE participants_cash' = _get_or_create_participant(gid, player_id)

\* get_portfolio's replay loop: lots is a dict keyed by ticker id, in the order
\* in which the tickers first occur among the (game, participant)'s trades.
RECURSIVE LotsOrder(_, _, _)
LotsOrder(i, gid, pkey) ==
    IF i = 0 THEN << >>
    ELSE LET t == trades[i]
             before == LotsOrder(i - 1, gid, pkey)
         IN  IF t.game_id # gid \/ t.participant_key # pkey THEN before
             ELSE IF \E k \in 1..Len(before) : before[k] = t.ticker_id THEN before
             ELSE Append(before, t.ticker_id)

\* variant: a SELL leaves the lot's quantity alone
RECURSIVE LotsLoop_buys_only(_, _, _, _)
LotsLoop_buys_only(i, gid, pkey, tid) ==
    IF i = 0 THEN [qty |-> 0, buy_cost |-> 0]
    ELSE LET t == trades[i]
             agg == LotsLoop_buys_only(i - 1, gid, pkey, tid)
         IN  IF t.game_id # gid \/ t.participant_key # pkey \/ t.ticker_id # tid THEN agg
             ELSE IF t.side = BUY
             THEN [qty |-> agg.qty + t.quantity,
                   buy_cost |-> agg.buy_cost + t.quantity * t.price]
             ELSE agg

RECURSIVE LotsLoop(_, _, _, _)
LotsLoop(i, gid, pkey, tid) ==
    IF i = 0 THEN [qty |-> 0, buy_cost |-> 0]
    ELSE LET t == trades[i]
             agg == LotsLoop(i - 1, gid, pkey, tid)
         IN  IF t.game_id # gid \/ t.participant_key # pkey \/ t.ticker_id # tid THEN agg
             ELSE IF t.side = BUY
             THEN [qty |-> agg.qty + t.quantity,
                   buy_cost |-> agg.buy_cost + t.quantity * t.price]
             ELSE [qty |-> agg.qty - t.quantity, buy_cost |-> agg.buy_cost]

lots(gid, pkey, tid) == LotsLoop(Len(trades), gid, pkey, tid)

\* avg_price = buy_cost / qty: the quotient is kept as an exact fraction
avg_price(agg) == [num |-> agg.buy_cost, den |-> agg.qty]

\* one Position of the response; (mkt_price - avg_price) * qty in exact arithmetic
Position(gid, pkey, tid) ==
    LET agg == lots(gid, pkey, tid)
        mkt_price == _latest_price(gid, tid, None).price
    IN  [ticker_id |-> tid, symbol |-> tickers[tid].symbol, quantity |-> agg.qty,
         avg_price |-> avg_price(agg), market_price |-> mkt_price,
         market_value |-> agg.qty * mkt_price,
         unrealized_pnl |-> mkt_price * agg.qty - agg.buy_cost]

\* the tickers of lots.items() that pass `if qty == 0: continue`, in dict order
HeldTids(gid, pkey) ==
    LET order == LotsOrder(Len(trades), gid, pkey)
        Held(tid) == lots(gid, pkey, tid).qty # 0
    IN  SelectSeq(order, Held)

\* Python's order on the symbols the model registers
SymbolOrder == <<"AAPL", "MSFT">>
SymbolRank(s) == CHOOSE i \in 1..Len(SymbolOrder) : SymbolOrder[i] = s

\* positions.sort(key=lambda p: p.symbol): stable, ascending
RECURSIVE InsertBySymbol(_, _)
InsertBySymbol(sorted, p) ==
    IF sorted = << >> THEN <<p>>
    ELSE IF SymbolRank(Head(sorted).symbol) <= SymbolRank(p.symbol)
    THEN <<Head(sorted)>> \o InsertBySymbol(Tail(sorted), p)
    ELSE <<p>> \o sorted

\* variant: the positions are left in the order of lots.items()
SortBySymbol_dict_order(ps, n) == ps

RECURSIVE SortBySymbol(_, _)
SortBySymbol(ps, n) ==
    IF n = 0 THEN << >> ELSE InsertBySymbol(SortBySymbol(ps, n - 1), ps[n])

RECURSIVE SumSeq(_, _)
SumSeq(f, n) == IF n = 0 THEN 0 ELSE SumSeq(f, n - 1) + f[n]

get_portfolio_detail(gid, player_id) ==
    LET pkey == _participant_key(gid, player_id)
        held == HeldTids(gid, pkey)
    IN  IF _ensure_user_and_game(player_id, gid) # "ok"
        THEN _ensure_user_and_game(player_id, gid)
        ELSE IF \E k \in 1..Len(held) : best_is_None(_latest_price(gid, held[k], None))
        THEN "No price snapshot available for this ticker"
        ELSE "ok"

\* the PortfolioResponse of a get_portfolio that succeeds
get_portfolio_response(gid, player_id) ==
    LET pkey == _participant_key(gid, player_id)
        cash == _get_or_create_participant(gid, player_id)[pkey]
        held == HeldTids(gid, pkey)
        unsorted == [k \in 1..Len(held) |-> Position(gid, pkey, held[k])]
        positions == SortBySymbol(unsorted, Len(unsorted))
    IN  [cash_balance |-> cash,
         positions |-> positions,
         equity |-> cash + SumSeq([k \in 1..Len(positions) |-> positions[k].market_value],
                                  Len(positions)),
         unrealized_pnl_total |->
             SumSeq([k \in 1..Len(positions) |-> positions[k].unrealized_pnl],
                    Len(positions))]

get_portfolio(gid, player_id) ==
    /\ UNCHANGED <<dirVars, tickerVars, priceVars, tradeVars>>
    /\ UNCHANGED loopVars
    /\ IF _ensure_user_and_game(player_id, gid) # "ok"
       THEN UNCHANGED participants_cash
       ELSE participants_cash' = _get_or_create_participant(gid, player_id)

---------------------------------------------------------------------------
(* Endpoints of game_server.py that the trading state depends on           *)

create_profile_detail(username) ==
    IF \E x \in DOMAIN profiles : profiles[x].username = username
    THEN "Username exists" ELSE "ok"

create_profile(username) ==
    /\ UNCHANGED <<games, game_id, matchmaking_queue, tickerVars, priceVars,
                   tradeVars, participants_cash>>
    /\ UNCHANGED loopVars
    /\ IF create_profile_detail(username) # "ok"
       THEN UNCHANGED profiles
       ELSE LET pid == UserId(Cardinality(DOMAIN profiles) + 1)
                new == [username |-> username, level |-> "BEGINNER"]
            IN  profiles' = [x \in DOMAIN profiles \cup {pid} |->
                                IF x = pid THEN new ELSE profiles[x]]

delete_profile(pid) ==
    /\ UNCHANGED <<games, game_id, matchmaking_queue, tickerVars, priceVars,
                   tradeVars, participants_cash>>
    /\ UNCHANGED loopVars
    /\ IF pid \notin DOMAIN profiles
       THEN UNCHANGED profiles
       ELSE profiles' = [x \in DOMAIN profiles \ {pid} |-> profiles[x]]

create_game(starting_cash) ==
    /\ UNCHANGED <<profiles, matchmaking_queue, tickerVars, priceVars,
                   tradeVars, participants_cash>>
    /\ UNCHANGED loopVars
    /\ games' = (game_id :> [starting_cash |-> starting_cash, status |-> PENDING,
                             participants_count |-> 0]) @@ games
    /\ game_id' = game_id + 1

delete_game_detail(gid) ==
    IF gid \notin DOMAIN games THEN "Game not found"
    ELSE IF games[gid].status # PENDING THEN "Can only delete pending games"
    ELSE "ok"

delete_game(gid) ==
    /\ UNCHANGED <<profiles, game_id, matchmaking_queue, tickerVars, priceVars,
                   tradeVars, participants_cash>>
    /\ UNCHANGED loopVars
    /\ IF delete_game_detail(gid) # "ok"
       THEN UNCHANGED games
       ELSE games' = [x \in DOMAIN games \ {gid} |-> games[x]]

join_game_detail(gid, player_id) ==
    IF gid \notin DOMAIN games THEN "Game not found"
    ELSE IF player_id \notin DOMAIN profiles THEN "Player not found"
    ELSE IF games[gid].status # PENDING THEN "Game not accepting players"
    ELSE "ok"

join_game(gid, player_id) ==
    /\ UNCHANGED <<profiles, game_id, matchmaking_queue, tickerVars, priceVars,
                   tradeVars, participants_cash>>
    /\ UNCHANGED loopVars
    /\ IF join_game_detail(gid, player_id) # "ok"
       THEN UNCHANGED games
       ELSE games' = [games EXCEPT ![gid].participants_count = @ + 1]

\* the levels dict of check_compatibility
levels(lvl) ==
    CASE lvl = "BEGINNER" -> 0
      [] lvl = "INTERMEDIATE" -> 1
      [] lvl = "ADVANCED" -> 2
      [] lvl = "EXPERT" -> 3

check_compatibility(lvl1, lvl2) ==
    levels(lvl1) - levels(lvl2) \in {-1, 0, 1}

\* GameCreate(): the default starting_cash
DefaultStartingCash == 100000

KeyErrorAt == -1

\* `for i, queued in enumerate(matchmaking_queue)`: the position of the first
\* queued player compatible with the requester, 0 when the loop runs out, and
\* KeyErrorAt when profiles[queued] is looked up for a deleted profile
RECURSIVE MatchLoop(_, _)
MatchLoop(i, player_id) ==
    IF i > Len(matchmaking_queue) THEN 0
    ELSE IF matchmaking_queue[i] \notin DOMAIN profiles THEN KeyErrorAt
    ELSE IF check_compatibility(profiles[player_id].level,
                                profiles[matchmaking_queue[i]].level)
    THEN i
    ELSE MatchLoop(i + 1, player_id)

\* list.pop(i)
Pop(q, i) == [k \in 1..(Len(q) - 1) |-> IF k < i THEN q[k] ELSE q[k + 1]]

\* the outcome of create_match: the detail of the 404, "KeyError", the status
\* "queued", or "AttributeError": create_game returns the dict games[gid], so
\* the handler stops at g.id, after matchmaking_queue.pop(i) and create_game
create_match_detail(player_id) ==
    IF player_id \notin DOMAIN profiles THEN "Player not found"
    ELSE IF MatchLoop(1, player_id) = KeyErrorAt THEN "KeyError"
    ELSE IF MatchLoop(1, player_id) = 0 THEN "queued"
    ELSE "AttributeError"

\* `matched`, the player create_match takes from the queue
create_match_matched(player_id) == matchmaking_queue[MatchLoop(1, player_id)]

create_match(player_id) ==
    /\ UNCHANGED <<profiles, tickerVars, priceVars, tradeVars, participants_cash>>
    /\ UNCHANGED loopVars
    /\ IF create_match_detail(player_id) \in {"Player not found", "KeyError"}
       THEN UNCHANGED <<games, game_id, matchmaking_queue>>
       ELSE IF create_match_detail(player_id) = "queued"
       THEN /\ matchmaking_queue' = Append(matchmaking_queue, player_id)
            /\ UNCHANGED <<games, game_id>>
       ELSE /\ matchmaking_queue' = Pop(matchmaking_queue, MatchLoop(1, player_id))
            /\ games' = (game_id :> [starting_cash |-> DefaultStartingCash,
                                     status |-> PENDING,
                                     participants_count |-> 0]) @@ games
            /\ game_id' = game_id + 1

leave_matchmaking_detail(pid) ==
    IF \A k \in 1..Len(matchmaking_queue) : matchmaking_queue[k] # pid
    THEN "Not in queue" ELSE "ok"

\* list.remove(pid): the first occurrence goes
leave_matchmaking(pid) ==
    /\ UNCHANGED <<profiles, games, game_id, tickerVars, priceVars, tradeVars,
                   participants_cash>>
    /\ UNCHANGED loopVars
    /\ IF leave_matchmaking_detail(pid) # "ok"
       THEN UNCHANGED matchmaking_queue
       ELSE LET first == CHOOSE k \in 1..Len(matchmaking_queue) :
                             /\ matchmaking_queue[k] = pid
                             /\ \A j \in 1..(k - 1) : matchmaking_queue[j] # pid
            IN  matchmaking_queue' = Pop(matchmaking_queue, first)

---------------------------------------------------------------------------
(* Spec: the trading endpoints together with the directory operations that *)
(* remove or add the players and games they refer to.                      *)

Next ==
    \/ \E s \in Symbols : create_ticker(s)
    \/ \E g \in SnapGameIds, s \in TradeSymbols, p \in Prices, r \in Rounds :
           /\ add_price_snapshot(g, s, p, r)
           /\ Len(price_snapshots') <= MaxSnaps
    \/ \E s \in TradeSymbols, g \in SnapGameIds, r \in Rounds : get_price(s, g, r)
    \/ \E g \in GameIds, p \in PlayerIds, s \in TradeSymbols, side \in {BUY, SELL},
          q \in Quantities, r \in Rounds, now \in Times :
           /\ place_trade(g, p, s, side, q, r, now)
           /\ Len(trades') <= MaxTrades
    \/ \E g \in GameIds, p \in PlayerIds, r \in Rounds, limit \in Limits, offset \in Offsets :
           list_trades(g, p, r, limit, offset)
    \/ \E g \in GameIds, p \in PlayerIds : get_portfolio(g, p)
    \/ \E u \in Usernames :
           /\ create_profile(u)
           /\ Cardinality(DOMAIN profiles') <= MaxProfiles
    \/ \E p \in PlayerIds : delete_profile(p)
    \/ \E g \in GameIds : delete_game(g)

Spec == Init /\ [][Next]_vars

---------------------------------------------------------------------------
(* SpecGate: trading in the three games of load_test_data (IN_PROGRESS,    *)
(* PENDING, COMPLETED), each of which can be given a price.                *)

GateSymbols == {"AAPL"}
GateGameIds == {1, 2, 3, 4}
GateStartingCash == {1000}

NextGate ==
    \/ \E s \in GateSymbols : create_ticker(s)
    \/ \E g \in GateGameIds, s \in GateSymbols, p \in Prices, r \in Rounds :
           /\ add_price_snapshot(g, s, p, r)
           /\ Len(price_snapshots') <= MaxSnaps
    \/ \E g \in GateGameIds, p \in PlayerIds, s \in GateSymbols, side \in {BUY, SELL},
          q \in Quantities, r \in Rounds, now \in Times :
           /\ place_trade(g, p, s, side, q, r, now)
           /\ Len(trades') <= MaxTrades
    \/ \E c \in GateStartingCash :
           /\ create_game(c)
           /\ game_id' <= MaxGameId
    \/ \E g \in GateGameIds : delete_game(g)

SpecGate == Init /\ [][NextGate]_vars

---------------------------------------------------------------------------
(* SpecPricing: the price store alone, with snapshots of several rounds,   *)
(* games and tickers.                                                      *)

PricingSymbols == {"AAPL", "aapl", "MSFT"}
PricingGameIds == {1, 2}
PricingRounds == {None, 1, 2}
PricingPrices == {185}

NextPricing ==
    \/ \E s \in PricingSymbols : create_ticker(s)
    \/ \E g \in PricingGameIds, s \in PricingSymbols, p \in PricingPrices, r \in PricingRounds :
           /\ add_price_snapshot(g, s, p, r)
           /\ Len(price_snapshots') <= MaxPriceSnaps
    \/ \E s \in PricingSymbols, g \in PricingGameIds, r \in PricingRounds : get_price(s, g, r)

SpecPricing == Init /\ [][NextPricing]_vars

---------------------------------------------------------------------------
(* SpecListing: two players trading in one game at equal and at different  *)
(* times (the clock read by place_trade is any of ListTimes), in and out   *)
(* of a round, and listing their trades.                                   *)

ListSymbols == {"AAPL"}
ListGameIds == {1}
ListPlayerIds == {"user_3", "user_4"}
ListRounds == {None, 1}
ListTimes == {1, 2}
ListPrices == {185}
ListQuantities == {1}
ListLimits == {1, 2}
ListOffsets == {0, 1, 2}

NextListing ==
    \/ \E s \in ListSymbols : create_ticker(s)
    \/ \E g \in ListGameIds, s \in ListSymbols, p \in ListPrices :
           /\ add_price_snapshot(g, s, p, None)
           /\ Len(price_snapshots') <= MaxSnaps
    \/ \E g \in ListGameIds, p \in ListPlayerIds, s \in ListSymbols, q \in ListQuantities,
          r \in ListRounds, now \in ListTimes :
           /\ place_trade(g, p, s, BUY, q, r, now)
           /\ Len(trades') <= MaxListTrades
    \/ \E g \in ListGameIds, p \in ListPlayerIds, r \in ListRounds,
          limit \in ListLimits, offset \in ListOffsets :
           list_trades(g, p, r, limit, offset)

SpecListing == Init /\ [][NextListing]_vars

---------------------------------------------------------------------------
(* SpecPortfolio: one player trading two tickers in one game, whose prices *)
(* move between trades and are given with and without a round, and         *)
(* reading the portfolio.                                                  *)

PortSymbols == {"AAPL", "MSFT"}
PortGameIds == {1}
PortPlayerIds == {"user_4"}
\* the (price, round_id) of the snapshots sent
PortQuotes == {<<100, None>>, <<120, 1>>}
PortRounds == {None, 1}
PortQuantities == {1}
PortTimes == {1}

NextPortfolio ==
    \/ \E s \in PortSymbols : create_ticker(s)
    \/ \E g \in PortGameIds, s \in PortSymbols, q \in PortQuotes :
           /\ add_price_snapshot(g, s, q[1], q[2])
           /\ Len(price_snapshots') <= MaxPortSnaps
    \/ \E g \in PortGameIds, p \in PortPlayerIds, s \in PortSymbols, side \in {BUY, SELL},
          q \in PortQuantities, r \in PortRounds, now \in PortTimes :
           /\ place_trade(g, p, s, side, q, r, now)
           /\ Len(trades') <= MaxPortTrades
    \/ \E g \in PortGameIds, p \in PortPlayerIds : get_portfolio(g, p)

SpecPortfolio == Init /\ [][NextPortfolio]_vars

---------------------------------------------------------------------------
(* SpecExecution: buying two tickers in a game, in and out of a round,     *)
(* while snapshots of either round form arrive for that game and another,  *)
(* for every ticker.                                                       *)

ExecSymbols == {"AAPL", "MSFT"}
ExecGameIds == {1, 2}
ExecTradeGameIds == {1}
ExecPlayerIds == {"user_4"}
\* the (price, round_id) of the snapshots sent
ExecQuotes == {<<100, None>>, <<120, 1>>}
ExecRounds == {None, 1}
ExecQuantities == {1}
ExecTimes == {1}

NextExecution ==
    \/ \E s \in ExecSymbols : create_ticker(s)
    \/ \E g \in ExecGameIds, s \in ExecSymbols, q \in ExecQuotes :
           /\ add_price_snapshot(g, s, q[1], q[2])
           /\ Len(price_snapshots') <= MaxExecSnaps
    \/ \E g \in ExecTradeGameIds, p \in ExecPlayerIds, s \in ExecSymbols,
          q \in ExecQuantities, r \in ExecRounds, now \in ExecTimes :
           /\ place_trade(g, p, s, BUY, q, r, now)
           /\ Len(trades') <= MaxExecTrades

SpecExecution == Init /\ [][NextExecution]_vars

---------------------------------------------------------------------------
(* SpecLoop: place_trade statement by statement, as coroutines of the      *)
(* asyncio event loop that serves the requests (main.py runs the app in    *)
(* one uvicorn process).  Every handler is an `async def` whose body holds *)
(* no await: the loop gives control to a coroutine only when none is       *)
(* running, and gets it back only when that coroutine returns or raises.   *)

\* the event loop can run coroutine c now (c = None: start a new handler)
scheduled_preemptive(c) == TRUE

scheduled(c) == running \in {None, c}

InFlight == Cardinality({c \in Slots : coroutines[c].pc # "done"})

\* place_trade up to and including the cash check (lines 216-235)
place_trade_checks(c, gid, player_id, ticker_symbol, side, quantity, round_id) ==
    LET detail == place_trade_detail(gid, player_id, ticker_symbol, side, quantity, round_id)
        pkey == _participant_key(gid, player_id)
    IN  /\ scheduled(None)
        /\ coroutines[c].pc = "done"
        /\ UNCHANGED <<dirVars, tickerVars, priceVars, tradeVars>>
        /\ IF detail \in BeforeParticipant
           THEN UNCHANGED <<participants_cash, loopVars>>
           ELSE IF detail # "ok"
           THEN /\ participants_cash' = _get_or_create_participant(gid, player_id)
                /\ UNCHANGED loopVars
           ELSE LET tid == _require_ticker(ticker_symbol)
                    price == _latest_price(gid, tid, round_id).price
                    created == _get_or_create_participant(gid, player_id)
                IN  /\ participants_cash' = created
                    /\ coroutines' = [coroutines EXCEPT ![c] =
                           [pc |-> "append", gid |-> gid, player_id |-> player_id,
                            ticker_symbol |-> ticker_symbol, side |-> side,
                            quantity |-> quantity, round_id |-> round_id, pkey |-> pkey,
                            tid |-> tid, price |-> price, notional |-> price * quantity,
                            cash |-> created[pkey], trade_row_id |-> 0]]
                    /\ running' = c

\* trades.append(trade_row); trade_id_seq += 1 (lines 237-250)
place_trade_append(c, now) ==
    LET f == coroutines[c]
    IN  /\ scheduled(c)
        /\ f.pc = "append"
        /\ UNCHANGED <<dirVars, tickerVars, priceVars, participants_cash, running>>
        /\ trades' = Append(trades,
               [id |-> trade_id_seq, game_id |-> f.gid, participant_key |-> f.pkey,
                round_id |-> f.round_id, ticker_id |-> f.tid, side |-> f.side,
                quantity |-> f.quantity, price |-> f.price, executed_at |-> now])
        /\ trade_id_seq' = trade_id_seq + 1
        /\ coroutines' = [coroutines EXCEPT ![c].pc = "cash", ![c].trade_row_id = trade_id_seq]

\* participants_cash[pkey] = cash -/+ notional, and the return (lines 252-268)
place_trade_cash(c) ==
    LET f == coroutines[c]
    IN  /\ scheduled(c)
        /\ f.pc = "cash"
        /\ UNCHANGED <<dirVars, tickerVars, priceVars, tradeVars>>
        /\ participants_cash' =
               [participants_cash EXCEPT ![f.pkey] = cash_after(f.side, f.cash, f.notional)]
        /\ coroutines' = [coroutines EXCEPT ![c] = NoFrame]
        /\ running' = None

LoopSymbols == {"AAPL"}
LoopGameIds == {1, 2}
LoopPlayerIds == {"user_4"}
LoopPrices == {50000}
LoopQuantities == {1}
LoopRounds == {None}
LoopTimes == {1}

NextLoop ==
    \/ \E s \in LoopSymbols :
           scheduled(None) /\ create_ticker(s)
    \/ \E g \in LoopGameIds, s \in LoopSymbols, p \in LoopPrices, r \in LoopRounds :
           /\ scheduled(None)
           /\ add_price_snapshot(g, s, p, r)
           /\ Len(price_snapshots') <= MaxSnaps
    \/ \E c \in Slots, g \in LoopGameIds, p \in LoopPlayerIds, s \in LoopSymbols,
          side \in {BUY, SELL}, q \in LoopQuantities, r \in LoopRounds :
           /\ place_trade_checks(c, g, p, s, side, q, r)
           /\ Len(trades) + InFlight < MaxLoopTrades
    \/ \E c \in Slots, now \in LoopTimes : place_trade_append(c, now)
    \/ \E c \in Slots : place_trade_cash(c)
    \/ \E g \in LoopGameIds, p \in LoopPlayerIds, r \in LoopRounds :
           scheduled(None) /\ list_trades(g, p, r, MaxLimit, 0)
    \/ \E g \in LoopGameIds, p \in LoopPlayerIds :
           scheduled(None) /\ get_portfolio(g, p)

SpecLoop == Init /\ [][NextLoop]_vars

----------------------------------------------------------------------------
(* SpecIdentity: profiles are deleted and created while their holders      *)
(* trade                                                                   *)

IdentityUsernames == {"newbie", "latecomer"}
IdentityPlayerIds == {"user_1", "user_4"}
IdentitySymbols == {"AAPL"}
IdentityGameIds == {1}
IdentityPrices == {50000}
IdentityQuantities == {1}
IdentityRounds == {None}
IdentityTimes == {1}

NextIdentity ==
    \/ \E s \in IdentitySymbols : create_ticker(s)
    \/ \E g \in IdentityGameIds, s \in IdentitySymbols, p \in IdentityPrices,
          r \in IdentityRounds :
           /\ add_price_snapshot(g, s, p, r)
           /\ Len(price_snapshots') <= MaxIdentitySnaps
    \/ \E g \in IdentityGameIds, p \in IdentityPlayerIds, s \in IdentitySymbols,
          side \in {BUY, SELL}, q \in IdentityQuantities, r \in IdentityRounds,
          now \in IdentityTimes :
           /\ place_trade(g, p, s, side, q, r, now)
           /\ Len(trades') <= MaxIdentityTrades
    \/ \E u \in IdentityUsernames :
           /\ create_profile(u)
           /\ Cardinality(DOMAIN profiles') <= MaxProfiles
    \/ \E p \in IdentityPlayerIds : delete_profile(p)

SpecIdentity == Init /\ [][NextIdentity]_vars

----------------------------------------------------------------------------
(* SpecMatch: the game directory and the matchmaking queue                 *)

MatchPlayerIds == {"user_1", "user_2", "user_3", "user_4"}
MatchLeavers == {"user_3", "user_4"}
MatchGameIds == {1, 2, 3, 4, 5}
MatchJoiners == {"user_4"}
MatchDeleted == {"user_3"}

NextMatch ==
    \/ \E p \in MatchPlayerIds :
           /\ create_match(p)
           /\ game_id' <= MaxMatchGameId
    \/ \E p \in MatchLeavers : leave_matchmaking(p)
    \/ \E g \in MatchGameIds, p \in MatchJoiners :
           /\ join_game(g, p)
           /\ g \in DOMAIN games => games'[g].participants_count <= MaxParticipants
    \/ \E g \in MatchGameIds : delete_game(g)
    \/ \E p \in MatchDeleted : delete_profile(p)

SpecMatch == Init /\ [][NextMatch]_vars

---------------------------------------------------------------------------
(* What the claims speak of, stated from the stored data alone (not by the *)
(* handlers' helpers).                                                     *)

RECURSIVE SumOver(_, _)
SumOver(f, S) ==
    IF S = {} THEN 0
    ELSE LET x == CHOOSE y \in S : TRUE IN f[x] + SumOver(f, S \ {x})

TradeIdx == 1..Len(trades)

\* indices of the trades of one participant in one ticker, by side
TradesOf(pkey, tid, side) ==
    {i \in TradeIdx : /\ trades[i].participant_key = pkey
                      /\ trades[i].ticker_id = tid
                      /\ trades[i].side = side}

QuantitySum(S) == SumOver([i \in TradeIdx |-> trades[i].quantity], S)
NotionalSum(S) == SumOver([i \in TradeIdx |-> trades[i].price * trades[i].quantity], S)

\* sum of BUY quantities minus sum of SELL quantities
DerivedQuantity(pkey, tid) ==
    QuantitySum(TradesOf(pkey, tid, BUY)) - QuantitySum(TradesOf(pkey, tid, SELL))

\* the trades of one participant, by side, over all tickers
SideOf(pkey, side) ==
    {i \in TradeIdx : trades[i].participant_key = pkey /\ trades[i].side = side}

Registered(symbol) == \E tid \in DOMAIN tickers : tickers[tid].symbol = upper(symbol)
TickerOf(symbol) == CHOOSE tid \in DOMAIN tickers : tickers[tid].symbol = upper(symbol)
Priced(gid, tid) ==
    \E i \in 1..Len(price_snapshots) :
        price_snapshots[i].game_id = gid /\ price_snapshots[i].ticker_id = tid

\* the balance a request of (gid, player_id) is checked against: the ledger
\* entry, or the game's starting cash when the entry is made by this request
CashOf(gid, player_id) ==
    IF <<gid, player_id>> \in DOMAIN participants_cash
    THEN participants_cash[<<gid, player_id>>]
    ELSE games[gid].starting_cash

\* a place_trade request that gets as far as the position and cash checks
ReachesChecks(gid, player_id, symbol) ==
    /\ player_id \in DOMAIN profiles
    /\ gid \in DOMAIN games
    /\ games[gid].status \in {PENDING, IN_PROGRESS}
    /\ Registered(symbol)
    /\ Priced(gid, TickerOf(symbol))

Appended == Len(trades') = Len(trades) + 1 /\ SubSeq(trades', 1, Len(trades)) = trades
NewTrade == trades'[Len(trades')]

---------------------------------------------------------------------------
(* C1: a SELL of more than the participant's derived position in the       *)
(* ticker is answered with "Insufficient position" and a SELL of at most   *)
(* that position is accepted; a step records a SELL only of at most the    *)
(* position derived before it; so the derived quantity of every            *)
(* (participant, ticker) pair is never negative.                           *)

C1_SellAnswer ==
    \A g \in GameIds, p \in PlayerIds, s \in TradeSymbols, q \in Quantities, r \in Rounds :
        ReachesChecks(g, p, s) =>
            LET held == DerivedQuantity(<<g, p>>, TickerOf(s))
                detail == place_trade_detail(g, p, s, SELL, q, r)
            IN  /\ q > held => detail = "Insufficient position (shorting disabled)"
                /\ q <= held => detail = "ok"

C1_NeverNegative ==
    \A g \in GameIds, p \in PlayerIds, tid \in DOMAIN tickers :
        DerivedQuantity(<<g, p>>, tid) >= 0

C1_SellStep ==
    trades' # trades =>
        /\ Appended
        /\ NewTrade.side = SELL =>
               NewTrade.quantity <= DerivedQuantity(NewTrade.participant_key, NewTrade.ticker_id)

\* C1: a SELL beyond the derived position is refused and recorded by no step, a
\* SELL within it is accepted, and no derived position is ever negative
C1_NoShortSelling ==
    /\ [](C1_SellAnswer /\ C1_NeverNegative)
    /\ [][C1_SellStep]_vars

\* a position was sold down to exactly zero, and selling one more is refused
C1_Witness ==
    \E g \in GameIds, p \in PlayerIds, s \in TradeSymbols :
        /\ ReachesChecks(g, p, s)
        /\ TradesOf(<<g, p>>, TickerOf(s), SELL) # {}
        /\ DerivedQuantity(<<g, p>>, TickerOf(s)) = 0
        /\ place_trade_detail(g, p, s, SELL, 1, None) = "Insufficient position (shorting disabled)"

---------------------------------------------------------------------------
(* C2: a BUY whose notional exceeds the participant's cash is answered     *)
(* with "Insufficient cash" and a BUY of at most the cash is accepted; a   *)
(* step records a BUY only of a notional within the cash held before it;   *)
(* so no participant's cash balance is ever negative.                      *)

C2_BuyAnswer ==
    \A g \in GameIds, p \in PlayerIds, s \in TradeSymbols, q \in Quantities, r \in Rounds :
        ReachesChecks(g, p, s) =>
            LET notional == _latest_price(g, TickerOf(s), r).price * q
                detail == place_trade_detail(g, p, s, BUY, q, r)
            IN  /\ notional > CashOf(g, p) => detail = "Insufficient cash"
                /\ notional <= CashOf(g, p) => detail = "ok"

C2_CashNeverNegative ==
    \A k \in DOMAIN participants_cash : participants_cash[k] >= 0

C2_BuyStep ==
    trades' # trades =>
        /\ Appended
        /\ NewTrade.side = BUY =>
               NewTrade.price * NewTrade.quantity <=
                   CashOf(NewTrade.participant_key[1], NewTrade.participant_key[2])

\* C2: a BUY beyond the cash balance is refused and recorded by no step, a BUY
\* within it is accepted, and no cash balance is ever negative
C2_BuySolvency ==
    /\ [](C2_BuyAnswer /\ C2_CashNeverNegative)
    /\ [][C2_BuyStep]_vars

\* a BUY of exactly the balance was recorded (cash is now 0) and a further BUY is refused
C2_Witness ==
    \E g \in GameIds, p \in PlayerIds, s \in TradeSymbols :
        /\ ReachesChecks(g, p, s)
        /\ <<g, p>> \in DOMAIN participants_cash
        /\ participants_cash[<<g, p>>] = 0
        /\ SideOf(<<g, p>>, BUY) # {}
        /\ place_trade_detail(g, p, s, BUY, 1, None) = "Insufficient cash"

---------------------------------------------------------------------------
(* C3: every participant's cash is its game's starting cash, less the      *)
(* notional of its BUY trades, plus the notional of its SELL trades; a     *)
(* step that records a trade moves that participant's cash by exactly the  *)
(* notional (down for a BUY, up for a SELL) and no other participant's.    *)

\* the starting cash of a game of the directory, also after its deletion
\* (the games that can be deleted here are those of load_test_data)
StartingCashOf(gid) ==
    IF gid \in DOMAIN games THEN games[gid].starting_cash
    ELSE load_test_data_games[gid].starting_cash

C3_Ledger ==
    \A k \in DOMAIN participants_cash :
        participants_cash[k] =
            StartingCashOf(k[1]) - NotionalSum(SideOf(k, BUY)) + NotionalSum(SideOf(k, SELL))

C3_TradeStep ==
    trades' # trades =>
        /\ Appended
        /\ LET k == NewTrade.participant_key
               notional == NewTrade.price * NewTrade.quantity
               before == CashOf(k[1], k[2])
           IN  /\ DOMAIN participants_cash' = DOMAIN participants_cash \cup {k}
               /\ participants_cash'[k] =
                      IF NewTrade.side = BUY THEN before - notional ELSE before + notional
               /\ \A j \in DOMAIN participants_cash \ {k} :
                      participants_cash'[j] = participants_cash[j]

\* C3: the ledger equals starting cash - BUY notionals + SELL notionals, and a
\* recorded trade moves its participant's cash by its notional and no other's
C3_LedgerConsistency ==
    /\ []C3_Ledger
    /\ [][C3_TradeStep]_vars

\* a participant has bought and then sold at the same price, so that its cash
\* is back at the starting cash, beside another participant of the ledger
C3_Witness ==
    \E k \in DOMAIN participants_cash, k2 \in DOMAIN participants_cash :
        /\ k2 # k
        /\ SideOf(k, BUY) # {}
        /\ SideOf(k, SELL) # {}
        /\ participants_cash[k] = StartingCashOf(k[1])
        /\ participants_cash[k2] = StartingCashOf(k2[1])

---------------------------------------------------------------------------
(* C5: an operation that fails (place_trade, add_price_snapshot or         *)
(* create_ticker raising an HTTPException) leaves the ticker registry, the *)
(* price snapshots, the trade log and the participant ledger unchanged.    *)

FailedStep ==
    \/ \E g \in GameIds, p \in PlayerIds, s \in TradeSymbols, side \in {BUY, SELL},
          q \in Quantities, r \in Rounds, now \in Times :
           /\ place_trade_detail(g, p, s, side, q, r) # "ok"
           /\ place_trade(g, p, s, side, q, r, now)
    \/ \E g \in SnapGameIds, s \in TradeSymbols, p \in Prices, r \in Rounds :
           /\ add_price_snapshot_detail(g, s) # "ok"
           /\ add_price_snapshot(g, s, p, r)
    \/ \E s \in Symbols :
           /\ create_ticker_detail(s) # "ok"
           /\ create_ticker(s)

\* C5: a failing place_trade, add_price_snapshot or create_ticker changes none
\* of the trading stores
C5_AllOrNothing ==
    [][FailedStep => UNCHANGED <<tickerVars, priceVars, tradeVars, participants_cash>>]_vars

---------------------------------------------------------------------------
(* C6: every trade of the log refers to a ticker of the registry, a game   *)
(* of the directory and a participant of the ledger.                       *)

\* C6: every trade refers to an existing ticker, game and participant
C6_ReferentialIntegrity ==
    \A i \in TradeIdx :
        /\ trades[i].ticker_id \in DOMAIN tickers
        /\ trades[i].game_id \in DOMAIN games
        /\ trades[i].participant_key \in DOMAIN participants_cash

---------------------------------------------------------------------------
(* C8: the average cost of every position get_portfolio reports is the     *)
(* notional of the participant's BUY trades in the ticker divided by the   *)
(* quantity of those BUY trades.                                           *)

\* C8: the reported average cost is BUY notional / BUY quantity
C8_AverageCostBuySide ==
    \A g \in GameIds, p \in PlayerIds :
        get_portfolio_detail(g, p) = "ok" =>
            LET positions == get_portfolio_response(g, p).positions
            IN  \A k \in 1..Len(positions) :
                    LET buys == TradesOf(<<g, p>>, positions[k].ticker_id, BUY)
                    IN  positions[k].avg_price.num * QuantitySum(buys) =
                            NotionalSum(buys) * positions[k].avg_price.den

---------------------------------------------------------------------------
(* C10: every recorded trade is returned by list_trades for its game and   *)
(* player, without a round filter and with its own round, on exactly one   *)
(* page of a pagination, and for no other game, player or round.           *)

Returned(id, gid, player_id, round_id) ==
    \E k \in DOMAIN list_trades_response(gid, player_id, round_id, MaxLimit, 0) :
        list_trades_response(gid, player_id, round_id, MaxLimit, 0)[k].id = id

PagesHolding(id, gid, player_id, limit) ==
    {n \in 0..Len(trades) :
        \E k \in DOMAIN list_trades_response(gid, player_id, None, limit, n * limit) :
            list_trades_response(gid, player_id, None, limit, n * limit)[k].id = id}

\* C10: every recorded trade is listed for its game, player and round, on
\* exactly one page, and for no other game, player or round
C10_RoundTrip ==
    \A i \in TradeIdx :
        LET t == trades[i]
            g == t.game_id
            p == t.participant_key[2]
        IN  /\ list_trades_detail(g, p) = "ok"
            /\ Returned(t.id, g, p, None)
            /\ Returned(t.id, g, p, t.round_id)
            /\ \A limit \in 1..2 : Cardinality(PagesHolding(t.id, g, p, limit)) = 1
            /\ \A g2 \in GameIds, p2 \in PlayerIds, r2 \in Rounds :
                   (g2 # g \/ p2 # p \/ (r2 # None /\ r2 # t.round_id)) =>
                       ~Returned(t.id, g2, p2, r2)

---------------------------------------------------------------------------
(* C4: place_trade is accepted only for a game whose status is PENDING or  *)
(* IN_PROGRESS when the request is served; for a COMPLETED game it is      *)
(* answered "Trading not allowed in this game state"; and a step records a *)
(* trade only for a game that is PENDING or IN_PROGRESS at that step.      *)

C4_GateAnswer ==
    \A g \in GateGameIds, p \in PlayerIds, s \in GateSymbols, side \in {BUY, SELL},
       q \in Quantities, r \in Rounds :
        (p \in DOMAIN profiles /\ g \in DOMAIN games) =>
            LET detail == place_trade_detail(g, p, s, side, q, r)
            IN  /\ games[g].status = COMPLETED =>
                       detail = "Trading not allowed in this game state"
                /\ detail = "ok" => games[g].status \in {PENDING, IN_PROGRESS}

C4_GateStep ==
    trades' # trades =>
        /\ Appended
        /\ NewTrade.game_id \in DOMAIN games
        /\ games[NewTrade.game_id].status \in {PENDING, IN_PROGRESS}

\* C4: place_trade is refused for a COMPLETED game and records a trade only for
\* a game that is PENDING or IN_PROGRESS
C4_GameStateGate ==
    /\ []C4_GateAnswer
    /\ [][C4_GateStep]_vars

\* the COMPLETED game has a price for a registered ticker, so that only its
\* status stands between the request and a trade; a trade of another game is recorded
C4_Witness ==
    \E g \in GateGameIds, p \in PlayerIds, s \in GateSymbols :
        /\ p \in DOMAIN profiles /\ g \in DOMAIN games
        /\ games[g].status = COMPLETED
        /\ Registered(s) /\ Priced(g, TickerOf(s))
        /\ place_trade_detail(g, p, s, BUY, 1, None) = "Trading not allowed in this game state"
        /\ \E i \in TradeIdx : trades[i].game_id # g

---------------------------------------------------------------------------
(* C7: _latest_price(game, ticker, round) is the last inserted snapshot of *)
(* (game, ticker, round) when a round is given and there is one, else the  *)
(* last inserted snapshot of (game, ticker) in any round; it raises "No    *)
(* price snapshot available" exactly when (game, ticker) has no snapshot.  *)

SnapsOf(gid, tid) ==
    {i \in 1..Len(price_snapshots) :
        price_snapshots[i].game_id = gid /\ price_snapshots[i].ticker_id = tid}
SnapsOfRound(gid, tid, round_id) ==
    {i \in SnapsOf(gid, tid) : price_snapshots[i].round_id = round_id}
Newest(S) == CHOOSE i \in S : \A j \in S : j <= i

\* C7: _latest_price is the newest snapshot of the round if given and present,
\* else the newest of any round, and fails exactly when there is none
C7_LatestPrice ==
    /\ \A g \in PricingGameIds, tid \in DOMAIN tickers, r \in PricingRounds :
           LET any == SnapsOf(g, tid)
               exact == SnapsOfRound(g, tid, r)
               got == _latest_price(g, tid, r)
           IN  /\ (r # None /\ exact # {}) => got = price_snapshots[Newest(exact)]
               /\ ((r = None \/ exact = {}) /\ any # {}) => got = price_snapshots[Newest(any)]
               /\ (any = {}) <=> (got = NoRow)
    /\ \A g \in PricingGameIds, s \in PricingSymbols, r \in PricingRounds :
           Registered(s) =>
               /\ (get_price_detail(s, g, r) = "No price snapshot available for this ticker")
                      <=> (SnapsOf(g, TickerOf(s)) = {})
               /\ SnapsOf(g, TickerOf(s)) # {} =>
                      /\ get_price_detail(s, g, r) = "ok"
                      /\ get_price_response(s, g, r).price = _latest_price(g, TickerOf(s), r).price

\* one (game, ticker) whose snapshot of round r is older than its newest
\* snapshot, which is older than a snapshot of another game or ticker, and
\* which has no snapshot of some other round r2 (the fallback)
C7_Witness ==
    \E g \in PricingGameIds, tid \in DOMAIN tickers, r \in PricingRounds \ {None},
       r2 \in PricingRounds \ {None} :
        /\ SnapsOfRound(g, tid, r) # {}
        /\ Newest(SnapsOfRound(g, tid, r)) < Newest(SnapsOf(g, tid))
        /\ Newest(SnapsOf(g, tid)) < Len(price_snapshots)
        /\ SnapsOfRound(g, tid, r2) = {}
        /\ _latest_price(g, tid, r) = price_snapshots[Newest(SnapsOfRound(g, tid, r))]
        /\ _latest_price(g, tid, r2) = price_snapshots[Newest(SnapsOf(g, tid))]

---------------------------------------------------------------------------
(* C9: list_trades returns the trades of the game and participant (and of  *)
(* the round, when one is given), ordered by executed_at descending and,   *)
(* among equal executed_at, in insertion order, cut by offset and limit;   *)
(* and a list_trades call leaves every list_trades answer as it was.       *)

Matching(gid, player_id, round_id) ==
    {i \in TradeIdx : /\ trades[i].game_id = gid
                      /\ trades[i].participant_key = <<gid, player_id>>
                      /\ (round_id = None \/ trades[i].round_id = round_id)}

IndexOfId(id) == CHOOSE i \in TradeIdx : trades[i].id = id

C9_Listing ==
    \A g \in ListGameIds, p \in ListPlayerIds, r \in ListRounds :
        LET all == list_trades_response(g, p, r, MaxLimit, 0)
            want == Matching(g, p, r)
        IN  /\ Len(all) = Cardinality(want)
            /\ {all[k].id : k \in 1..Len(all)} = {trades[i].id : i \in want}
            /\ \A k \in 1..Len(all) : all[k] = TradeListItem(trades[IndexOfId(all[k].id)])
            /\ \A k \in 1..(Len(all) - 1) :
                   \/ all[k].executed_at > all[k + 1].executed_at
                   \/ /\ all[k].executed_at = all[k + 1].executed_at
                      /\ IndexOfId(all[k].id) < IndexOfId(all[k + 1].id)
            /\ \A limit \in ListLimits, offset \in ListOffsets :
                   LET page == list_trades_response(g, p, r, limit, offset)
                       left == IF Len(all) > offset THEN Len(all) - offset ELSE 0
                   IN  /\ Len(page) = IF left < limit THEN left ELSE limit
                       /\ \A k \in 1..Len(page) : page[k] = all[offset + k]

ListTradesStep ==
    \E g \in ListGameIds, p \in ListPlayerIds, r \in ListRounds,
       limit \in ListLimits, offset \in ListOffsets :
        list_trades(g, p, r, limit, offset)

\* a list_trades call leaves the answers of list_trades as they were: the
\* whole listing of every filter (every page is a cut of it, by C9_Listing).
\* A call that changes no variable does so trivially; what is left to check
\* is the call that makes the participant's ledger entry.
C9_Repeat ==
    (ListTradesStep /\ vars' # vars) =>
        \A g \in ListGameIds, p \in ListPlayerIds, r \in ListRounds :
            /\ list_trades_detail(g, p)' = list_trades_detail(g, p)
            /\ list_trades_response(g, p, r, MaxLimit, 0)' =
                   list_trades_response(g, p, r, MaxLimit, 0)

\* C9: the listing is the matching trades by executed_at descending, ties in
\* insertion order, cut by offset and limit, and listing does not change it
C9_DeterministicListing ==
    /\ []C9_Listing
    /\ [][C9_Repeat]_vars

\* a participant whose first trade is older than its second and third, which
\* are of the same time: the listing is second, third, first
C9_Witness ==
    \E g \in ListGameIds, p \in ListPlayerIds :
        LET all == list_trades_response(g, p, None, MaxLimit, 0)
        IN  /\ Len(all) = 3
            /\ IndexOfId(all[3].id) < IndexOfId(all[1].id)
            /\ IndexOfId(all[1].id) < IndexOfId(all[2].id)
            /\ all[1].executed_at = all[2].executed_at
            /\ <<g, p>> \in DOMAIN participants_cash

---------------------------------------------------------------------------
(* C11: create_ticker answers "Ticker exists" exactly when a ticker of the *)
(* same symbol ignoring case is registered, and otherwise stores the       *)
(* uppercased symbol under the next sequential id; symbols are unique      *)
(* ignoring case, ids are unique, and the symbol index leads from every    *)
(* casing of a stored symbol to the ticker that carries it and from an     *)
(* unregistered symbol to none.                                            *)

\* the case-folded form of the symbols the model sends
lower(s) ==
    CASE s = "AAPL" -> "aapl"
      [] s = "MSFT" -> "msft"
      [] OTHER -> s

SameIgnoringCase(a, b) == lower(a) = lower(b)

\* the symbols of the model that hold no lower-case letter
UpperCased == {"AAPL", "MSFT"}

\* the tickers of the registry that carry symbol s in some casing
Carrying(s) == {tid \in DOMAIN tickers : SameIgnoringCase(tickers[tid].symbol, s)}

C11_Answer ==
    \A s \in PricingSymbols :
        (create_ticker_detail(s) = "Ticker exists") <=> (Carrying(s) # {})

C11_Registry ==
    /\ DOMAIN tickers = 1..(ticker_id_seq - 1)
    /\ \A tid \in DOMAIN tickers : tickers[tid].id = tid
    /\ \A t1 \in DOMAIN tickers, t2 \in DOMAIN tickers :
           SameIgnoringCase(tickers[t1].symbol, tickers[t2].symbol) => t1 = t2
    /\ DOMAIN sym_index = {tickers[tid].symbol : tid \in DOMAIN tickers}
    /\ \A tid \in DOMAIN tickers : sym_index[tickers[tid].symbol] = tid
    /\ \A s \in PricingSymbols :
           /\ Carrying(s) # {} => Carrying(s) = {_require_ticker(s)}
           /\ Carrying(s) = {} => _require_ticker(s) = None

\* a step that changes the registry is a registration under the next id
C11_RegisterStep ==
    tickers' # tickers =>
        \E s \in PricingSymbols :
            /\ Carrying(s) = {}
            /\ DOMAIN tickers' = DOMAIN tickers \cup {Cardinality(DOMAIN tickers) + 1}
            /\ \A tid \in DOMAIN tickers : tickers'[tid] = tickers[tid]
            /\ tickers'[Cardinality(DOMAIN tickers) + 1].id = Cardinality(DOMAIN tickers) + 1
            /\ SameIgnoringCase(tickers'[Cardinality(DOMAIN tickers) + 1].symbol, s)
            /\ tickers'[Cardinality(DOMAIN tickers) + 1].symbol \in UpperCased

\* C11: create_ticker refuses a symbol registered in any casing, registers
\* the uppercased symbol under the next id, and the index resolves every casing
C11_TickerRegistration ==
    /\ [](C11_Answer /\ C11_Registry)
    /\ [][C11_RegisterStep]_vars

\* "aapl" was registered second, is stored as "AAPL" under id 2, is found by
\* either casing, and a registration of "AAPL" is refused
C11_Witness ==
    /\ 2 \in DOMAIN tickers
    /\ tickers[2].symbol = "AAPL"
    /\ _require_ticker("aapl") = 2
    /\ _require_ticker("AAPL") = 2
    /\ create_ticker_detail("AAPL") = "Ticker exists"
    /\ create_ticker_detail("aapl") = "Ticker exists"

---------------------------------------------------------------------------
(* C12: get_portfolio reports exactly the tickers of non-zero net quantity *)
(* of the (game, participant), by symbol ascending, each valued at its     *)
(* quantity times the price of the last inserted snapshot of the game and  *)
(* ticker in any round; equity is cash plus the market values and          *)
(* unrealized_pnl_total the sum of the positions' unrealized P&L.          *)

\* the trades of one game and participant in one ticker, by side
GameTradesOf(gid, player_id, tid, side) ==
    {i \in TradeIdx : /\ trades[i].game_id = gid
                      /\ trades[i].participant_key = <<gid, player_id>>
                      /\ trades[i].ticker_id = tid
                      /\ trades[i].side = side}

NetQuantity(gid, player_id, tid) ==
    QuantitySum(GameTradesOf(gid, player_id, tid, BUY)) -
        QuantitySum(GameTradesOf(gid, player_id, tid, SELL))

\* the pairs (a, b) of symbols of the model with a < b as Python strings
SymbolBefore == {<<"AAPL", "MSFT">>}

C12_PortfolioValuation ==
    \A g \in PortGameIds, p \in PortPlayerIds :
        get_portfolio_detail(g, p) = "ok" =>
            LET resp == get_portfolio_response(g, p)
                ps == resp.positions
                held == {tid \in DOMAIN tickers : NetQuantity(g, p, tid) # 0}
            IN  /\ Len(ps) = Cardinality(held)
                /\ {ps[k].ticker_id : k \in 1..Len(ps)} = held
                /\ \A k \in 1..(Len(ps) - 1) : <<ps[k].symbol, ps[k + 1].symbol>> \in SymbolBefore
                /\ \A k \in 1..Len(ps) :
                       LET tid == ps[k].ticker_id
                           snap == price_snapshots[Newest(SnapsOf(g, tid))]
                       IN  /\ ps[k].symbol = tickers[tid].symbol
                           /\ ps[k].quantity = NetQuantity(g, p, tid)
                           /\ ps[k].market_price = snap.price
                           /\ ps[k].market_value = NetQuantity(g, p, tid) * snap.price
                /\ resp.cash_balance = CashOf(g, p)
                /\ resp.equity = CashOf(g, p) +
                       SumOver([k \in 1..Len(ps) |-> ps[k].market_value], 1..Len(ps))
                /\ resp.unrealized_pnl_total =
                       SumOver([k \in 1..Len(ps) |-> ps[k].unrealized_pnl], 1..Len(ps))

\* MSFT was bought before AAPL and both are held; AAPL's last snapshot is of
\* a round and newer than the one it was bought at, at another price
C12_Witness ==
    \E g \in PortGameIds, p \in PortPlayerIds :
        /\ get_portfolio_detail(g, p) = "ok"
        /\ Len(trades) = 2
        /\ tickers[trades[1].ticker_id].symbol = "MSFT"
        /\ tickers[trades[2].ticker_id].symbol = "AAPL"
        /\ <<g, p>> \in DOMAIN participants_cash
        /\ LET ps == get_portfolio_response(g, p).positions
           IN  /\ Len(ps) = 2
               /\ ps[1].symbol = "AAPL"
               /\ ps[1].market_price # trades[2].price
               /\ price_snapshots[Len(price_snapshots)].round_id # None
               /\ price_snapshots[Len(price_snapshots)].ticker_id = ps[1].ticker_id

---------------------------------------------------------------------------
(* C13: a ledger entry is made by a place_trade, list_trades or            *)
(* get_portfolio of its (game, player), with the game's starting cash; it  *)
(* is never removed and its cash changes only in a step that records a     *)
(* trade of that participant; list_trades, get_portfolio, get_price,       *)
(* add_price_snapshot and create_ticker change neither the cash of an      *)
(* existing participant nor the trade log.                                 *)

\* a step of place_trade, list_trades or get_portfolio for (gid, player_id)
AccessStep(gid, player_id) ==
    \/ \E s \in TradeSymbols, side \in {BUY, SELL}, q \in Quantities, r \in Rounds,
          now \in Times : place_trade(gid, player_id, s, side, q, r, now)
    \/ \E r \in Rounds, limit \in Limits, offset \in Offsets :
           list_trades(gid, player_id, r, limit, offset)
    \/ get_portfolio(gid, player_id)

\* a step of one of the five operations that only read the ledger's cash
ReadingStep ==
    \/ \E g \in GameIds, p \in PlayerIds, r \in Rounds, limit \in Limits, offset \in Offsets :
           list_trades(g, p, r, limit, offset)
    \/ \E g \in GameIds, p \in PlayerIds : get_portfolio(g, p)
    \/ \E s \in TradeSymbols, g \in SnapGameIds, r \in Rounds : get_price(s, g, r)
    \/ \E g \in SnapGameIds, s \in TradeSymbols, p \in Prices, r \in Rounds :
           add_price_snapshot(g, s, p, r)
    \/ \E s \in Symbols : create_ticker(s)

C13_EntryMade ==
    \A k \in DOMAIN participants_cash' \ DOMAIN participants_cash :
        /\ DOMAIN participants_cash' = DOMAIN participants_cash \cup {k}
        /\ k[1] \in DOMAIN games
        /\ AccessStep(k[1], k[2])
        /\ IF trades' = trades
           THEN participants_cash'[k] = games[k[1]].starting_cash
           ELSE /\ Appended
                /\ NewTrade.participant_key = k
                /\ NewTrade.side = BUY
                /\ participants_cash'[k] =
                       games[k[1]].starting_cash - NewTrade.price * NewTrade.quantity

C13_EntryKept ==
    \A k \in DOMAIN participants_cash :
        /\ k \in DOMAIN participants_cash'
        /\ participants_cash'[k] # participants_cash[k] =>
               /\ Appended
               /\ NewTrade.participant_key = k
               /\ AccessStep(k[1], k[2])

C13_Reading ==
    ReadingStep =>
        /\ trades' = trades
        /\ \A k \in DOMAIN participants_cash :
               k \in DOMAIN participants_cash' /\ participants_cash'[k] = participants_cash[k]

\* C13: ledger entries are made with the starting cash by an access of their
\* pair, change only with a trade of their participant, and reads change none
C13_LedgerFrame ==
    [][C13_EntryMade /\ C13_EntryKept /\ C13_Reading]_vars

\* two participants were made without a trade (by list_trades, get_portfolio
\* or a refused place_trade) in games of different starting cash, one has
\* traded since and the other still holds its game's starting cash
C13_Witness ==
    \E k1 \in DOMAIN participants_cash, k2 \in DOMAIN participants_cash :
        /\ k1[1] # k2[1]
        /\ k1[1] \in DOMAIN games /\ k2[1] \in DOMAIN games
        /\ games[k1[1]].starting_cash # games[k2[1]].starting_cash
        /\ SideOf(k1, BUY) # {}
        /\ participants_cash[k1] < games[k1[1]].starting_cash
        /\ SideOf(k2, BUY) = {} /\ SideOf(k2, SELL) = {}
        /\ participants_cash[k2] = games[k2[1]].starting_cash

---------------------------------------------------------------------------
(* C14: between the position/cash check of a place_trade and its append    *)
(* and cash update no other request runs: no two place_trade coroutines    *)
(* are past their checks and before their cash update together, whenever   *)
(* another handler (a reader such as get_portfolio or list_trades) can be  *)
(* given control every recorded trade has its cash applied, and no         *)
(* position or balance is negative.                                        *)

\* coroutine c has passed its checks and not yet applied its cash
InSection(c) == coroutines[c].pc \in {"append", "cash"}

C14_OneAtATime ==
    \A c1 \in Slots, c2 \in Slots : (InSection(c1) /\ InSection(c2)) => c1 = c2

\* what a handler that is given control sees: the ledger agrees with the log
C14_ReaderView ==
    scheduled(None) =>
        \A k \in DOMAIN participants_cash :
            participants_cash[k] =
                StartingCashOf(k[1]) - NotionalSum(SideOf(k, BUY)) + NotionalSum(SideOf(k, SELL))

C14_Solvent ==
    /\ \A k \in DOMAIN participants_cash : participants_cash[k] >= 0
    /\ \A g \in LoopGameIds, p \in LoopPlayerIds, tid \in DOMAIN tickers :
           DerivedQuantity(<<g, p>>, tid) >= 0

\* C14: check, append and cash update of a place_trade are one step for every
\* other request
C14_AtomicTrade == C14_OneAtATime /\ C14_ReaderView /\ C14_Solvent

\* a second trade of a participant is appended and its cash not yet applied
\* (the ledger disagrees with the log), and the event loop is not free
C14_Witness ==
    \E c \in Slots :
        /\ coroutines[c].pc = "cash"
        /\ Len(trades) = 2
        /\ trades[1].participant_key = trades[2].participant_key
        /\ participants_cash[coroutines[c].pkey] #
               StartingCashOf(coroutines[c].gid)
                   - NotionalSum(SideOf(coroutines[c].pkey, BUY))
                   + NotionalSum(SideOf(coroutines[c].pkey, SELL))
        /\ ~scheduled(None)

---------------------------------------------------------------------------
(* C15: in every step the trade log and the price-snapshot list stay as    *)
(* they are or get one row at the end, every earlier row keeping its place *)
(* and its fields; the id of the i-th trade is i and the id of the i-th    *)
(* snapshot is i (ids from 1, increasing by one, none repeated).           *)

\* log `after` is log `before`, or `before` with one row added at the end
GrownAtEnd(before, after) ==
    /\ Len(after) \in {Len(before), Len(before) + 1}
    /\ \A i \in 1..Len(before) : after[i] = before[i]

C15_Sequential ==
    /\ \A i \in 1..Len(trades) : trades[i].id = i
    /\ \A i \in 1..Len(price_snapshots) : price_snapshots[i].id = i

C15_Grow ==
    /\ GrownAtEnd(trades, trades')
    /\ GrownAtEnd(price_snapshots, price_snapshots')

\* C15: trades and price snapshots are only ever added at the end, unchanged
\* afterwards, with ids 1, 2, 3, ... in insertion order
C15_AppendOnly ==
    /\ []C15_Sequential
    /\ [][C15_Grow]_vars

\* two trades and two snapshots are recorded, and the game of a trade and a
\* snapshot has been deleted since
C15_Witness ==
    /\ Len(trades) = 2
    /\ Len(price_snapshots) = 2
    /\ trades[2].id = 2
    /\ price_snapshots[2].id = 2
    /\ \E i \in 1..2 : trades[i].game_id \notin DOMAIN games
    /\ \E i \in 1..2 : price_snapshots[i].game_id \notin DOMAIN games

---------------------------------------------------------------------------
(* C16: the price of a trade is, when it is recorded, the price of the     *)
(* last inserted snapshot of its (game, ticker, round) if the trade names  *)
(* a round that has one, else of the last inserted snapshot of its (game,  *)
(* ticker); so it is the price of a snapshot of that game and ticker; and  *)
(* no later step changes it.                                               *)

\* the snapshot a trade of (gid, tid, round_id) is priced at
Applicable(gid, tid, round_id) ==
    IF round_id # None /\ SnapsOfRound(gid, tid, round_id) # {}
    THEN price_snapshots[Newest(SnapsOfRound(gid, tid, round_id))]
    ELSE price_snapshots[Newest(SnapsOf(gid, tid))]

C16_PricedAtRecording ==
    trades' # trades =>
        /\ Appended
        /\ SnapsOf(NewTrade.game_id, NewTrade.ticker_id) # {}
        /\ NewTrade.price =
               Applicable(NewTrade.game_id, NewTrade.ticker_id, NewTrade.round_id).price

C16_OwnSnapshot ==
    \A i \in TradeIdx :
        \E j \in SnapsOf(trades[i].game_id, trades[i].ticker_id) :
            price_snapshots[j].price = trades[i].price

C16_PriceKept ==
    \A i \in TradeIdx : i \in 1..Len(trades') /\ trades'[i].price = trades[i].price

\* C16: a trade is priced at the snapshot _latest_price selects when it is
\* recorded, a snapshot of its own game and ticker, and keeps that price
C16_ExecutionPrice ==
    /\ []C16_OwnSnapshot
    /\ [][C16_PricedAtRecording /\ C16_PriceKept]_vars

\* a trade in round 1 was priced at the round's snapshot although a newer
\* snapshot of its game and ticker existed, a snapshot of another game or
\* ticker has another price, and the newest snapshot of its game and ticker
\* now has another price than the trade
C16_Witness ==
    \E i \in TradeIdx :
        LET t == trades[i]
            own == SnapsOf(t.game_id, t.ticker_id)
        IN  /\ t.round_id = 1
            /\ t.price = 120
            /\ price_snapshots[Newest(own)].price = 100
            /\ \E j \in 1..Len(price_snapshots) :
                   /\ j \notin own
                   /\ j < Newest(own)

---------------------------------------------------------------------------
(* C17: place_trade answers by the first check that fails, in the order    *)
(* player, game, game status, ticker, price, position, cash; and it writes *)
(* the trade log and the ledger's cash only when every check has passed.   *)

\* the answer the order of the checks prescribes for a request
FirstFailure(gid, player_id, symbol, side, quantity, round_id) ==
    IF player_id \notin DOMAIN profiles THEN "Player not found"
    ELSE IF gid \notin DOMAIN games THEN "Game not found"
    ELSE IF games[gid].status = COMPLETED THEN "Trading not allowed in this game state"
    ELSE IF ~Registered(symbol) THEN "Ticker not found"
    ELSE IF ~Priced(gid, TickerOf(symbol)) THEN "No price snapshot available for this ticker"
    ELSE IF side = SELL /\ quantity > DerivedQuantity(<<gid, player_id>>, TickerOf(symbol))
    THEN "Insufficient position (shorting disabled)"
    ELSE IF side = BUY /\
            price_snapshots[Newest(SnapsOf(gid, TickerOf(symbol)))].price * quantity >
                CashOf(gid, player_id)
    THEN "Insufficient cash"
    ELSE "ok"

C17_Order ==
    \A g \in GameIds, p \in PlayerIds, s \in TradeSymbols, side \in {BUY, SELL},
       q \in Quantities, r \in Rounds :
        place_trade_detail(g, p, s, side, q, r) = FirstFailure(g, p, s, side, q, r)

\* a place_trade that some check refuses writes neither the log nor the cash
C17_WrittenAfterChecks ==
    \A g \in GameIds, p \in PlayerIds, s \in TradeSymbols, side \in {BUY, SELL},
       q \in Quantities, r \in Rounds, now \in Times :
        (FirstFailure(g, p, s, side, q, r) # "ok" /\ place_trade(g, p, s, side, q, r, now)) =>
            UNCHANGED <<trades, participants_cash>>

\* C17: the answer of place_trade is that of the first failing check in step
\* order, and log and cash are written only after every check has passed
C17_FailurePrecedence ==
    /\ []C17_Order
    /\ [][C17_WrittenAfterChecks]_vars


----------------------------------------------------------------------------
(* C18: get_portfolio is never answered with "No price snapshot available": *)
(* every ticker in which a participant holds a non-zero net quantity has a  *)
(* price snapshot in that game, because a trade is recorded only when a     *)
(* snapshot of its game and ticker was already there and no step removes    *)
(* or rewrites a snapshot.                                                  *)

C18_NeverUnpriced ==
    \A g \in GameIds, p \in PlayerIds :
        get_portfolio_detail(g, p) # "No price snapshot available for this ticker"

C18_HeldPriced ==
    \A g \in GameIds, p \in PlayerIds, tid \in DOMAIN tickers :
        NetQuantity(g, p, tid) # 0 => Priced(g, tid)

C18_RecordedAfterPrice ==
    Len(trades') > Len(trades) =>
        /\ Appended
        /\ Priced(NewTrade.game_id, NewTrade.ticker_id)

C18_SnapshotsKept == GrownAtEnd(price_snapshots, price_snapshots')

C18_PortfolioPriced ==
    /\ []C18_NeverUnpriced
    /\ []C18_HeldPriced
    /\ [][C18_RecordedAfterPrice /\ C18_SnapshotsKept]_vars

\* a held position whose portfolio is computed, in a ticker that another
\* game has no snapshot of
C18_Witness ==
    \E g \in GameIds, p \in PlayerIds, tid \in DOMAIN tickers :
        /\ NetQuantity(g, p, tid) # 0
        /\ get_portfolio_detail(g, p) = "ok"
        /\ Len(get_portfolio_response(g, p).positions) > 0
        /\ \E other \in SnapGameIds : other # g /\ ~Priced(other, tid)


----------------------------------------------------------------------------
(* C19: the two replays of the trade log agree.  For every participant and  *)
(* ticker the net quantity get_portfolio derives (trades of the game and    *)
(* the participant key) equals the quantity _position_quantity derives for  *)
(* place_trade's position check (trades of the participant key and the      *)
(* ticker), and the portfolio has a position in the ticker exactly when     *)
(* that quantity is not 0.                                                  *)

\* the tickers of the positions of the PortfolioResponse
PositionTids(gid, player_id) ==
    LET positions == get_portfolio_response(gid, player_id).positions
    IN  {positions[k].ticker_id : k \in 1..Len(positions)}

C19_SameQuantity ==
    \A g \in GameIds, p \in PlayerIds, tid \in DOMAIN tickers :
        lots(g, _participant_key(g, p), tid).qty =
            _position_quantity(_participant_key(g, p), tid)

C19_OmittedWhenFlat ==
    \A g \in GameIds, p \in PlayerIds, tid \in DOMAIN tickers :
        get_portfolio_detail(g, p) = "ok" =>
            /\ (tid \in PositionTids(g, p)) <=>
                   (_position_quantity(_participant_key(g, p), tid) # 0)
            /\ \A k \in 1..Len(get_portfolio_response(g, p).positions) :
                   LET pos == get_portfolio_response(g, p).positions[k]
                   IN  pos.quantity = _position_quantity(_participant_key(g, p), pos.ticker_id)

C19_ReplayPathsAgree == C19_SameQuantity /\ C19_OmittedWhenFlat

\* a participant who bought and sold a ticker back to 0: the ticker has a lot
\* and is left out of the portfolio
C19_Witness ==
    \E g \in GameIds, p \in PlayerIds, tid \in DOMAIN tickers :
        /\ TradesOf(_participant_key(g, p), tid, BUY) # {}
        /\ TradesOf(_participant_key(g, p), tid, SELL) # {}
        /\ _position_quantity(_participant_key(g, p), tid) = 0
        /\ get_portfolio_detail(g, p) = "ok"
        /\ tid \notin PositionTids(g, p)


----------------------------------------------------------------------------
(* C20: player identity is stable.  A create_profile that is accepted       *)
(* assigns an id that no profile holds, so it leaves every existing profile *)
(* as it was, and the player it creates has no balance in the cash ledger   *)
(* and no trade in the log.                                                 *)

\* the ids a step adds to profiles
Created == DOMAIN profiles' \ DOMAIN profiles

\* the player a participant key belongs to
PlayerOf(pkey) == pkey[2]

C20_FreshId ==
    \A u \in IdentityUsernames :
        (create_profile_detail(u) = "ok" /\ create_profile(u)) =>
            /\ Created # {}
            /\ \A x \in DOMAIN profiles : profiles'[x] = profiles[x]

C20_CleanStart ==
    \A x \in Created :
        /\ \A pkey \in DOMAIN participants_cash' : PlayerOf(pkey) # x
        /\ \A i \in 1..Len(trades') : PlayerOf(trades'[i].participant_key) # x

C20_StableIdentity == [][C20_FreshId /\ C20_CleanStart]_vars


----------------------------------------------------------------------------
(* C21: matchmaking never pairs a player with themselves.  A create_match   *)
(* that finds a match takes from the queue a player other than the one who  *)
(* asks, whatever create_match and leave_matchmaking calls came before.     *)

\* the request of player p finds a match in the queue
FindsMatch(p) == p \in DOMAIN profiles /\ MatchLoop(1, p) > 0

C21_OtherPlayer ==
    \A p \in MatchPlayerIds :
        (FindsMatch(p) /\ create_match(p)) => create_match_matched(p) # p

C21_NoSelfMatch == [][C21_OtherPlayer]_vars


----------------------------------------------------------------------------
(* C22: the game lifecycle is one-way.  A step removes a game or adds a     *)
(* participant to it only while the game is PENDING, so a game that is      *)
(* IN_PROGRESS or COMPLETED stays in the directory with the participants it *)
(* has and never becomes PENDING again; and the game a create_match makes   *)
(* for a match it found is IN_PROGRESS with participants_count 2 when the   *)
(* call is over.                                                            *)

Started(g) == g \in DOMAIN games /\ games[g].status \in {IN_PROGRESS, COMPLETED}

C22_PendingOnly ==
    \A g \in DOMAIN games :
        (g \notin DOMAIN games' \/ games'[g].participants_count > games[g].participants_count)
            => games[g].status = PENDING

C22_OneWay ==
    \A g \in DOMAIN games :
        Started(g) =>
            /\ g \in DOMAIN games'
            /\ games'[g].status # PENDING
            /\ games'[g].participants_count = games[g].participants_count

C22_MatchStarted ==
    \A p \in MatchPlayerIds :
        (FindsMatch(p) /\ create_match(p)) =>
            \A g \in DOMAIN games' \ DOMAIN games :
                /\ games'[g].status = IN_PROGRESS
                /\ games'[g].participants_count = 2

C22_OneWayLifecycle == [][C22_PendingOnly /\ C22_OneWay /\ C22_MatchStarted]_vars

====
